---- MODULE Spec2Model ----
(***************************************************************************)
(* Model of IndexedInequalityTransformer::transformIndexToFilter           *)
(* (IndexedInequality.cpp) over the RAM operation tree.                    *)
(*                                                                         *)
(* Every non-leaf RAM operation owns exactly one nested operation, so the  *)
(* operation tree of a query is a chain.  A subtree is the sequence of     *)
(* its operations, outermost first: Head is the node itself, Tail is the   *)
(* subtree of its nested operation.  Conditions and expressions are        *)
(* values owned by an operation record.                                    *)
(*                                                                         *)
(* One action is one invocation of a rewriter lambda on one operation of   *)
(* one query (the rewriter is also invoked on conditions, expressions and  *)
(* relation references, where it has no effect).                           *)
(***************************************************************************)
EXTENDS Integers, Sequences, FiniteSets, TLC

\* ---- bounds -----------------------------------------------------------
Arity == 2          \* arity of relation R (relation S has one attribute less)
MaxConst == 1       \* bound expressions are the constants 1..MaxConst
MaxDepth == 2       \* nested operations above the leaf of the first query
MaxQueries == 2     \* queries of a program
MaxCalls == 2       \* successive calls of transformIndexToFilter
MaxTuples == 2      \* tuples of a relation a choice iterates over

\* ---- relations --------------------------------------------------------
Rels == {"R", "S"}
ArityOf(r) == IF r = "R" THEN Arity ELSE Arity - 1
Positions(r) == 0 .. (ArityOf(r) - 1)

\* ---- expressions ------------------------------------------------------
RamUndefValue == [e |-> "undef"]
RamSignedConstant(n) == [e |-> "const", v |-> n]
RamTupleElement(t, i) == [e |-> "tuple", t |-> t, i |-> i]
isRamUndefValue(x) == x.e = "undef"

\* deep copy of a node: a structurally equal value
clone(x) == x

\* ---- conditions -------------------------------------------------------
NullCondition == [c |-> "null"]
RamTrue == [c |-> "true"]
RamConstraint(op, l, r) == [c |-> "constraint", op |-> op, lhs |-> l, rhs |-> r]
RamConjunction(l, r) == [c |-> "and", lhs |-> l, rhs |-> r]

\* ---- operations -------------------------------------------------------
NoPattern == <<>>
NoExpr == [e |-> "none"]

Op(type, rel, id, cond, first, second, profile, fun, expr) ==
    [type |-> type, rel |-> rel, id |-> id, cond |-> cond, first |-> first,
     second |-> second, profile |-> profile, fun |-> fun, expr |-> expr]

IndexTypes == {"IndexScan", "ParallelIndexScan", "IndexChoice", "IndexAggregate", "IndexOther"}

\* dynamic_cast<RamIndexOperation*>(node.get())
isIndexOperation(op) == op.type \in IndexTypes

\* constructors: the node followed by the subtree of its nested operation
RamIndexScan(rel, id, pattern, nested, profile) ==
    <<Op("IndexScan", rel, id, NullCondition, pattern.first, pattern.second, profile, "-", NoExpr)>> \o nested
RamParallelIndexScan(rel, id, pattern, nested, profile) ==
    <<Op("ParallelIndexScan", rel, id, NullCondition, pattern.first, pattern.second, profile, "-", NoExpr)>> \o nested
RamIndexChoice(rel, id, cond, pattern, nested, profile) ==
    <<Op("IndexChoice", rel, id, cond, pattern.first, pattern.second, profile, "-", NoExpr)>> \o nested
RamIndexAggregate(nested, fun, rel, expr, cond, pattern, id) ==
    <<Op("IndexAggregate", rel, id, cond, pattern.first, pattern.second, "", fun, expr)>> \o nested
RamScan(rel, id, nested, profile) ==
    <<Op("Scan", rel, id, NullCondition, NoPattern, NoPattern, profile, "-", NoExpr)>> \o nested
RamParallelScan(rel, id, nested, profile) ==
    <<Op("ParallelScan", rel, id, NullCondition, NoPattern, NoPattern, profile, "-", NoExpr)>> \o nested
RamChoice(rel, id, cond, nested, profile) ==
    <<Op("Choice", rel, id, cond, NoPattern, NoPattern, profile, "-", NoExpr)>> \o nested
RamAggregate(nested, fun, rel, expr, cond, id) ==
    <<Op("Aggregate", rel, id, cond, NoPattern, NoPattern, "", fun, expr)>> \o nested
RamFilter(cond, nested) ==
    <<Op("Filter", "-", 0, cond, NoPattern, NoPattern, "", "-", NoExpr)>> \o nested

\* ---- index-selection analysis (external) -------------------------------
\* search signature of an index operation: the constrained attribute positions
getSearchSignature(op) ==
    {i \in DOMAIN op.first : ~(isRamUndefValue(op.first[i]) /\ isRamUndefValue(op.second[i]))}

\* the attributes to discharge are a set of positions that the range-for of
\* the discharge loop iterates; the container type is declared outside this
\* file, which includes <unordered_set>, so an answer is the sequence of
\* distinct positions in the order the loop meets them
Orders(rel) ==
    {s \in UNION {[1 .. n -> Positions(rel)] : n \in 0 .. ArityOf(rel)} :
        \A a, b \in DOMAIN s : a # b => s[a] # s[b]}

Range(s) == {s[k] : k \in DOMAIN s}

\* ---- pass 1: indexToFilterRewriter -------------------------------------
\* faulty variant: the new constraint becomes the left operand
addCondition_reversed(condition, c) ==
    IF condition = NullCondition THEN c ELSE RamConjunction(c, condition)

addCondition(condition, c) ==
    IF condition = NullCondition THEN c ELSE RamConjunction(condition, c)

\* faulty variant: strict comparison for the lower bound
lowerBound_strict(op, i) ==
    RamConstraint("GT", RamTupleElement(op.id, i), clone(op.first[i]))

lowerBound(op, i) ==
    RamConstraint("GE", RamTupleElement(op.id, i), clone(op.first[i]))

upperBound(op, i) ==
    RamConstraint("LE", RamTupleElement(op.id, i), clone(op.second[i]))

\* faulty variant: the slot is erased instead of being reset
resetBounds_erased(updatedPattern, i) ==
    [first |-> [j \in DOMAIN updatedPattern.first \ {i} |-> updatedPattern.first[j]],
     second |-> [j \in DOMAIN updatedPattern.second \ {i} |-> updatedPattern.second[j]]]

resetBounds(updatedPattern, i) ==
    [first |-> [updatedPattern.first EXCEPT ![i] = RamUndefValue],
     second |-> [updatedPattern.second EXCEPT ![i] = RamUndefValue]]

\* the loop over attributesToDischarge
RECURSIVE dischargeLoop(_, _, _, _)
dischargeLoop(op, ord, condition, updatedPattern) ==
    IF ord = <<>>
    THEN [condition |-> condition, updatedPattern |-> updatedPattern]
    ELSE LET i == Head(ord)
             c1 == IF ~isRamUndefValue(op.first[i])
                   THEN addCondition(condition, clone(lowerBound(op, i)))
                   ELSE condition
             c2 == IF ~isRamUndefValue(op.second[i])
                   THEN addCondition(c1, clone(upperBound(op, i)))
                   ELSE c1
         IN dischargeLoop(op, Tail(ord), c2, resetBounds(updatedPattern, i))

\* faulty variant: the node is rewritten whether or not a condition was synthesized
conditionSynthesized_always(condition) == TRUE

\* if (condition): a condition was synthesized
conditionSynthesized(condition) == condition # NullCondition

\* the new Filter around a copy of the nested operation
makeFilter(condition, nestedOp) == RamFilter(clone(condition), clone(nestedOp))

\* faulty variant: the synthesized condition comes first
strengthenedCondition_swapped(iaggCondition, condition) ==
    addCondition(condition, clone(iaggCondition))

strengthenedCondition(iaggCondition, condition) ==
    addCondition(clone(iaggCondition), condition)

\* the replacement nodes of the first pass
\* faulty variant: the nested operation is an index operation around the Filter
rewriteIndexScan_indexedFilter(iscan, updatedPattern, filter) ==
    RamIndexScan(iscan.rel, iscan.id, updatedPattern,
                 RamIndexScan(iscan.rel, iscan.id, updatedPattern, filter, ""), iscan.profile)

rewriteIndexScan(iscan, updatedPattern, filter) ==
    RamIndexScan(iscan.rel, iscan.id, updatedPattern, filter, iscan.profile)

rewriteParallelIndexScan(pscan, updatedPattern, filter) ==
    RamParallelIndexScan(pscan.rel, pscan.id, updatedPattern, filter, pscan.profile)

\* faulty variant: the profile text is not passed on
rewriteIndexChoice_noProfile(ichoice, updatedPattern, filter) ==
    RamIndexChoice(ichoice.rel, ichoice.id, clone(ichoice.cond), updatedPattern, filter, "")

rewriteIndexChoice(ichoice, updatedPattern, filter) ==
    RamIndexChoice(ichoice.rel, ichoice.id, clone(ichoice.cond), updatedPattern, filter,
                   ichoice.profile)

rewriteIndexAggregate(iagg, updatedPattern, nestedOp, condition) ==
    RamIndexAggregate(nestedOp, iagg.fun, iagg.rel, clone(iagg.expr),
                      strengthenedCondition(iagg.cond, condition), updatedPattern, iagg.id)

\* faulty variant: an unknown index operation is skipped silently
unsupportedIndexOperation_skipped(node) == [fatal |-> FALSE, node |-> node]

\* fatal(...): the process is aborted, the node is never returned
unsupportedIndexOperation(node) == [fatal |-> TRUE, node |-> node]

\* the body of indexToFilterRewriter before node->apply: the replacement
\* subtree, whether fatal() was reached, and the local `condition`
indexToFilterRewriter(node, ord) ==
    LET op == Head(node)
    IN IF ~isIndexOperation(op)
       THEN [fatal |-> FALSE, node |-> node, condition |-> NullCondition]
       ELSE
       LET r == dischargeLoop(op, ord, NullCondition,
                              [first |-> clone(op.first), second |-> clone(op.second)])
           condition == r.condition
           updatedPattern == r.updatedPattern
           nestedOp == clone(Tail(node))
           filter == makeFilter(condition, nestedOp)
           res == IF ~conditionSynthesized(condition)
                  THEN [fatal |-> FALSE, node |-> node]
                  ELSE IF op.type = "IndexScan"
                  THEN [fatal |-> FALSE, node |-> rewriteIndexScan(op, updatedPattern, filter)]
                  ELSE IF op.type = "ParallelIndexScan"
                  THEN [fatal |-> FALSE,
                        node |-> rewriteParallelIndexScan(op, updatedPattern, filter)]
                  ELSE IF op.type = "IndexChoice"
                  THEN [fatal |-> FALSE, node |-> rewriteIndexChoice(op, updatedPattern, filter)]
                  ELSE IF op.type = "IndexAggregate"
                  THEN [fatal |-> FALSE,
                        node |-> rewriteIndexAggregate(op, updatedPattern, nestedOp, condition)]
                  ELSE unsupportedIndexOperation(node)
       IN [fatal |-> res.fatal, node |-> res.node, condition |-> condition]

\* ---- pass 2: removeEmptyIndexRewriter ----------------------------------
\* faulty variant: equal lower and upper bounds do not count as a box query
foundRealIndexableOperation_unequal(op) ==
    \E i \in DOMAIN op.first :
        /\ ~(isRamUndefValue(op.first[i]) /\ isRamUndefValue(op.second[i]))
        /\ op.first[i] # op.second[i]

foundRealIndexableOperation(op) ==
    \E i \in DOMAIN op.first :
        ~(isRamUndefValue(op.first[i]) /\ isRamUndefValue(op.second[i]))

\* the replacement nodes of the second pass
downgradeIndexScan(iscan, nested) ==
    RamScan(iscan.rel, iscan.id, clone(nested), iscan.profile)

downgradeParallelIndexScan(pscan, nested) ==
    RamParallelScan(pscan.rel, pscan.id, clone(nested), pscan.profile)

\* faulty variant: the choice condition is lost
downgradeIndexChoice_noCondition(ichoice, nested) ==
    RamChoice(ichoice.rel, ichoice.id, RamTrue, clone(nested), ichoice.profile)

downgradeIndexChoice(ichoice, nested) ==
    RamChoice(ichoice.rel, ichoice.id, clone(ichoice.cond), clone(nested), ichoice.profile)

downgradeIndexAggregate(iagg, nested) ==
    RamAggregate(clone(nested), iagg.fun, iagg.rel, clone(iagg.expr), clone(iagg.cond), iagg.id)

removeEmptyIndexRewriter(node) ==
    LET op == Head(node)
        nested == Tail(node)
    IN IF ~isIndexOperation(op) \/ foundRealIndexableOperation(op)
       THEN [fatal |-> FALSE, node |-> node]
       ELSE IF op.type = "IndexScan"
       THEN [fatal |-> FALSE, node |-> downgradeIndexScan(op, nested)]
       ELSE IF op.type = "ParallelIndexScan"
       THEN [fatal |-> FALSE, node |-> downgradeParallelIndexScan(op, nested)]
       ELSE IF op.type = "IndexChoice"
       THEN [fatal |-> FALSE, node |-> downgradeIndexChoice(op, nested)]
       ELSE IF op.type = "IndexAggregate"
       THEN [fatal |-> FALSE, node |-> downgradeIndexAggregate(op, nested)]
       ELSE unsupportedIndexOperation(node)

\* ---- state -------------------------------------------------------------
VARIABLES
    prog,       \* the program: a sequence of queries, each the chain of its operations
    pc,         \* "idle", "discharge" (first sweep), "remove" (second sweep), "fatal"
    q,          \* the query the current sweep is in
    pos,        \* the operation of that query the rewriter is invoked on next
    changed,    \* the local `changed` of the running call
    rets,       \* the values returned by the completed calls
    snap,       \* the program before the first call and after each completed call
    memo,       \* the answers the index analysis has given so far
    last,       \* the latest rewriter invocation: where, on what, with what result
    visits,     \* the rewriter invocations of the running call, in the order they happen
    this,       \* RamOperation.h: the operation the member functions are called on
    other,      \* RamOperation.h: the operation it is compared with or was cloned from
    result      \* RamOperation.h: the latest member function call and what it returned

opvars == <<this, other, result>>
vars == <<prog, pc, q, pos, changed, rets, snap, memo, last, visits, this, other, result>>

\* ---- programs the translator can build ---------------------------------
LowerBounds == {RamUndefValue, RamSignedConstant(1)}
UpperBounds == {RamUndefValue} \cup {RamSignedConstant(n) : n \in 1 .. MaxConst}
Patterns(rel) ==
    [first : [Positions(rel) -> LowerBounds], second : [Positions(rel) -> UpperBounds]]
Conds == {RamTrue, RamConstraint("NE", RamTupleElement(0, 0), RamSignedConstant(0))}
Profiles == {"", "p"}
Funs == {"MAX", "COUNT"}

AllUndef(rel) == [first |-> [i \in Positions(rel) |-> RamUndefValue],
                  second |-> [i \in Positions(rel) |-> RamUndefValue]]
AllBound(rel) == [first |-> [i \in Positions(rel) |-> RamSignedConstant(1)],
                  second |-> [i \in Positions(rel) |-> RamSignedConstant(MaxConst)]]

RamProject == <<Op("Project", "R", 0, NullCondition, NoPattern, NoPattern, "", "-", NoExpr)>>
RamReturn == <<Op("Return", "-", 0, NullCondition, NoPattern, NoPattern, "", "-", NoExpr)>>
RamLookup(nested, id) ==
    <<Op("Lookup", "-", id, NullCondition, NoPattern, NoPattern, "", "-", NoExpr)>> \o nested

\* one operation of any kind, the index operations with every pattern
OuterOps(id, nested) ==
    UNION {
        UNION { {RamIndexScan(r, id, p, nested, t), RamParallelIndexScan(r, id, p, nested, t),
                 <<Op("IndexOther", r, id, NullCondition, p.first, p.second, t, "-", NoExpr)>>
                     \o nested}
                \cup {RamIndexChoice(r, id, c, p, nested, t) : c \in Conds}
                : p \in Patterns(r), t \in Profiles }
        \cup UNION { {RamIndexAggregate(nested, f, r, RamTupleElement(id, 0), c, p, id) : f \in Funs}
                : p \in Patterns(r), c \in Conds }
        \cup {RamScan(r, id, nested, "p"), RamParallelScan(r, id, nested, ""),
              RamChoice(r, id, RamTrue, nested, "p"),
              RamAggregate(nested, "MAX", r, RamTupleElement(id, 0), RamTrue, id)}
        : r \in Rels }
    \cup {RamFilter(RamTrue, nested), RamLookup(nested, id)}

\* the operations of programs with nested operations and several queries
InnerOps(id, nested) ==
    {RamIndexScan("R", id, AllBound("R"), nested, "p"),
     RamIndexChoice("S", id, RamTrue, AllUndef("S"), nested, ""),
     RamIndexAggregate(nested, "MAX", "R", RamTupleElement(id, 0), RamTrue, AllBound("R"), id),
     <<Op("IndexOther", "S", id, NullCondition, AllBound("S").first, AllUndef("S").second,
          "", "-", NoExpr)>> \o nested,
     RamFilter(RamTrue, nested)}

\* chains of 1..n nested operations above a leaf
RECURSIVE InnerChains(_, _, _)
InnerChains(id, n, leaf) ==
    IF n = 0 THEN {}
    ELSE UNION {InnerOps(id, c) : c \in {leaf} \cup InnerChains(id + 1, n - 1, leaf)}

\* sequences of 2..n queries of one operation
RECURSIVE QuerySeqs(_)
QuerySeqs(n) ==
    IF n < 2 THEN {}
    ELSE LET one == InnerChains(0, 1, RamReturn)
         IN {<<a, b>> : a \in one, b \in one}
            \cup {<<a>> \o s : a \in one, s \in QuerySeqs(n - 1)}

\* one query of one operation of any kind, one query nesting up to MaxDepth
\* operations, or up to MaxQueries queries
Programs ==
    {<<f>> : f \in OuterOps(0, RamProject)}
    \cup {<<f>> : f \in InnerChains(0, MaxDepth, RamProject)}
    \cup QuerySeqs(MaxQueries)

\* no operation is under test while the transformer runs
NoOperation == <<>>
NoResult == [call |-> "none", value |-> <<>>, clones |-> 0]

NoLast == [pass |-> "none", q |-> 0, pos |-> 0, ord |-> <<>>, condition |-> NullCondition,
           before |-> <<>>, after |-> <<>>]

Init ==
    /\ prog \in Programs
    /\ pc = "idle"
    /\ q = 1
    /\ pos = 1
    /\ changed = FALSE
    /\ rets = <<>>
    /\ snap = <<prog>>
    /\ memo = {}
    /\ last = NoLast
    /\ visits = <<>>
    /\ this = NoOperation /\ other = NoOperation /\ result = NoResult

\* ---- traversal ---------------------------------------------------------
\* node->apply(mapper): the rewriter goes on into the nested operation of
\* the (possibly new) node; below a leaf the sweep goes on to the next query
\* faulty variant: the rewriter returns the node without node->apply
applyNested_noRecursion(chain) ==
    [q |-> q + 1, pos |-> 1]

\* faulty variant: the recursion skips the nested operation of the node
applyNested_skipChild(chain) ==
    IF pos + 1 < Len(chain) THEN [q |-> q, pos |-> pos + 2] ELSE [q |-> q + 1, pos |-> 1]

applyNested(chain) ==
    IF pos < Len(chain) THEN [q |-> q, pos |-> pos + 1] ELSE [q |-> q + 1, pos |-> 1]

\* the query with the subtree at pos replaced by node
install(chain, node) == SubSeq(chain, 1, pos - 1) \o node
subtree(chain) == SubSeq(chain, pos, Len(chain))

\* one invocation of a rewriter: the pass and the operation it is invoked on
invocation(pass) == [pass |-> pass, q |-> q, pos |-> pos]

\* idxAnalysis answers are a fixed function of relation and search signature
answers(rel, sig, ord) ==
    \A m \in memo : (m.rel = rel /\ m.sig = sig) => m.ord = ord

\* ---- transformIndexToFilter --------------------------------------------
\* the optimization pipeline calls the transformer once
BeginCall ==
    /\ pc = "idle"
    /\ rets = <<>>
    /\ pc' = "discharge"
    /\ changed' = FALSE
    /\ q' = 1
    /\ pos' = 1
    /\ visits' = <<>>
    /\ UNCHANGED <<prog, rets, snap, memo, last, this, other, result>>

\* indexToFilterRewriter on an operation that is not an index operation
IndexToFilterOther ==
    /\ pc = "discharge"
    /\ q <= Len(prog)
    /\ ~isIndexOperation(prog[q][pos])
    /\ q' = applyNested(prog[q]).q
    /\ pos' = applyNested(prog[q]).pos
    /\ last' = [pass |-> "discharge", q |-> q, pos |-> pos, ord |-> <<>>,
                condition |-> NullCondition, before |-> prog[q], after |-> prog[q]]
    /\ visits' = Append(visits, invocation("discharge"))
    /\ UNCHANGED <<prog, pc, changed, rets, snap, memo, this, other, result>>

\* indexToFilterRewriter on an index operation that it handles
IndexToFilterIndex ==
    /\ pc = "discharge"
    /\ q <= Len(prog)
    /\ isIndexOperation(prog[q][pos])
    /\ \E ord \in Orders(prog[q][pos].rel) :
        LET op == prog[q][pos]
            sig == getSearchSignature(op)
            res == indexToFilterRewriter(subtree(prog[q]), ord)
            chain == install(prog[q], res.node)
        IN /\ answers(op.rel, sig, ord)
           /\ ~res.fatal
           /\ memo' = memo \cup {[rel |-> op.rel, sig |-> sig, ord |-> ord]}
           /\ changed' = (changed \/ ord # <<>>)
           /\ prog' = [prog EXCEPT ![q] = chain]
           /\ q' = applyNested(chain).q
           /\ pos' = applyNested(chain).pos
           /\ last' = [pass |-> "discharge", q |-> q, pos |-> pos, ord |-> ord,
                       condition |-> res.condition, before |-> prog[q], after |-> chain]
    /\ visits' = Append(visits, invocation("discharge"))
    /\ UNCHANGED <<pc, rets, snap, this, other, result>>

\* indexToFilterRewriter reaches fatal(): the call does not return
IndexToFilterFatal ==
    /\ pc = "discharge"
    /\ q <= Len(prog)
    /\ isIndexOperation(prog[q][pos])
    /\ \E ord \in Orders(prog[q][pos].rel) :
        LET op == prog[q][pos]
            sig == getSearchSignature(op)
            res == indexToFilterRewriter(subtree(prog[q]), ord)
        IN /\ answers(op.rel, sig, ord)
           /\ res.fatal
           /\ memo' = memo \cup {[rel |-> op.rel, sig |-> sig, ord |-> ord]}
           /\ changed' = (changed \/ ord # <<>>)
           /\ last' = [pass |-> "discharge", q |-> q, pos |-> pos, ord |-> ord,
                       condition |-> res.condition, before |-> prog[q], after |-> prog[q]]
    /\ pc' = "fatal"
    /\ visits' = Append(visits, invocation("discharge"))
    /\ UNCHANGED <<prog, q, pos, rets, snap, this, other, result>>

\* faulty variant: the second sweep starts before the first is over
EndIndexToFilter_early ==
    /\ pc = "discharge"
    /\ pc' = "remove"
    /\ q' = 1
    /\ pos' = 1
    /\ UNCHANGED <<prog, changed, rets, snap, memo, last, visits, this, other, result>>

\* the first visitDepthFirst is over; the second starts
EndIndexToFilter ==
    /\ pc = "discharge"
    /\ q > Len(prog)
    /\ pc' = "remove"
    /\ q' = 1
    /\ pos' = 1
    /\ UNCHANGED <<prog, changed, rets, snap, memo, last, visits, this, other, result>>

\* removeEmptyIndexRewriter on an operation
RemoveEmptyIndex ==
    /\ pc = "remove"
    /\ q <= Len(prog)
    /\ LET res == removeEmptyIndexRewriter(subtree(prog[q]))
           chain == install(prog[q], res.node)
       IN /\ ~res.fatal
          /\ prog' = [prog EXCEPT ![q] = chain]
          /\ q' = applyNested(chain).q
          /\ pos' = applyNested(chain).pos
          /\ last' = [pass |-> "remove", q |-> q, pos |-> pos, ord |-> <<>>,
                      condition |-> NullCondition, before |-> prog[q], after |-> chain]
    /\ visits' = Append(visits, invocation("remove"))
    /\ UNCHANGED <<pc, changed, rets, snap, memo, this, other, result>>

\* removeEmptyIndexRewriter reaches fatal(): the call does not return
RemoveEmptyIndexFatal ==
    /\ pc = "remove"
    /\ q <= Len(prog)
    /\ removeEmptyIndexRewriter(subtree(prog[q])).fatal
    /\ pc' = "fatal"
    /\ last' = [pass |-> "remove", q |-> q, pos |-> pos, ord |-> <<>>,
                condition |-> NullCondition, before |-> prog[q], after |-> prog[q]]
    /\ visits' = Append(visits, invocation("remove"))
    /\ UNCHANGED <<prog, q, pos, changed, rets, snap, memo, this, other, result>>

\* return changed
Return ==
    /\ pc = "remove"
    /\ q > Len(prog)
    /\ pc' = "idle"
    /\ rets' = Append(rets, changed)
    /\ snap' = Append(snap, prog)
    /\ q' = 1
    /\ pos' = 1
    /\ UNCHANGED <<prog, changed, memo, last, visits, this, other, result>>

Next ==
    \/ BeginCall
    \/ IndexToFilterOther
    \/ IndexToFilterIndex
    \/ IndexToFilterFatal
    \/ EndIndexToFilter
    \/ RemoveEmptyIndex
    \/ RemoveEmptyIndexFatal
    \/ Return

Spec == Init /\ [][Next]_vars

\* a driver that calls the transformer again on its own result
CallAgain ==
    /\ pc = "idle"
    /\ rets # <<>>
    /\ Len(rets) < MaxCalls
    /\ pc' = "discharge"
    /\ changed' = FALSE
    /\ q' = 1
    /\ pos' = 1
    /\ visits' = <<>>
    /\ UNCHANGED <<prog, rets, snap, memo, last, this, other, result>>

NextAgain == Next \/ CallAgain

SpecAgain == Init /\ [][NextAgain]_vars

\* the call runs to its end: nothing suspends a sweep
SpecFair == Init /\ [][Next]_vars /\ WF_vars(Next)

TypeOK ==
    /\ pc \in {"idle", "discharge", "remove", "fatal"}
    /\ changed \in BOOLEAN
    /\ Len(snap) = Len(rets) + 1

\* ---- evaluation of patterns and conditions on a tuple -------------------
\* the tuples of a relation over the values around the bound constants
Tuples(rel) == [Positions(rel) -> 0 .. (MaxConst + 1)]

\* the per-attribute box of a range pattern
inPattern(first, second, t) ==
    \A i \in DOMAIN first :
        /\ isRamUndefValue(first[i]) \/ t[i] >= first[i].v
        /\ isRamUndefValue(second[i]) \/ t[i] <= second[i].v

\* an expression where tuple id is bound to t and every other tuple to zeros
evalExpression(x, id, t) ==
    IF x.e = "const" THEN x.v
    ELSE IF x.e = "tuple" /\ x.t = id /\ x.i \in DOMAIN t THEN t[x.i]
    ELSE 0

RECURSIVE evalCondition(_, _, _)
evalCondition(c, id, t) ==
    IF c.c = "and" THEN evalCondition(c.lhs, id, t) /\ evalCondition(c.rhs, id, t)
    ELSE IF c.c = "constraint"
    THEN LET l == evalExpression(c.lhs, id, t)
             r == evalExpression(c.rhs, id, t)
         IN CASE c.op = "GE" -> l >= r
              [] c.op = "LE" -> l <= r
              [] c.op = "GT" -> l > r
              [] c.op = "LT" -> l < r
              [] c.op = "NE" -> l # r
              [] OTHER -> l = r
    ELSE TRUE

\* the contents of a relation, in the order an index yields the tuples
Contents(rel) ==
    {s \in UNION {[1 .. n -> Tuples(rel)] : n \in 0 .. MaxTuples} :
        \A a, b \in DOMAIN s : a # b => s[a] # s[b]}

\* IndexChoice: the tuples of the range that satisfy the choice condition, in
\* iteration order; the nested operation runs once, on the first of them
choiceMatches(ichoice, content) ==
    SelectSeq(content, LAMBDA t : /\ inPattern(ichoice.first, ichoice.second, t)
                                  /\ evalCondition(ichoice.cond, ichoice.id, t))

\* whether the operation below a Filter that is the nested operation of an
\* IndexChoice runs: the Filter is evaluated on the chosen tuple only
runsBelowFilter(ichoice, filter, content) ==
    /\ choiceMatches(ichoice, content) # <<>>
    /\ evalCondition(filter.cond, ichoice.id, Head(choiceMatches(ichoice, content)))

\* ==== RamOperation.h: the operation classes ==============================
\* An operation is again the chain of its node and of its nested subtree.
\* A node carries the members of every class; those its class does not
\* have stay at their initial value.

\* size_t is 64 bits wide: a value is four limbs of 16 bits, the least
\* significant first, so that arithmetic wraps at 2^64 as the build's does
Limb == 65536
Limbs == 4
size_t(n) == [i \in 1 .. Limbs |-> IF i = 1 THEN n ELSE 0]
SIZE_MAX == [i \in 1 .. Limbs |-> Limb - 1]

\* l - 1 on size_t: borrow through the zero limbs; 0 - 1 is SIZE_MAX
minusOne(l) ==
    LET nonzero == {i \in 1 .. Limbs : l[i] # 0}
    IN IF nonzero = {} THEN SIZE_MAX
       ELSE LET k == CHOOSE i \in nonzero : \A j \in nonzero : i <= j
            IN [i \in 1 .. Limbs |->
                   IF i < k THEN Limb - 1 ELSE IF i = k THEN l[i] - 1 ELSE l[i]]

\* a null std::unique_ptr<RamValue>
NullValue == [e |-> "null"]
NoRelation == "-"

\* an owned node together with the address it is allocated at
Allocated(at, x) == [at |-> at, node |-> x]

RamOperation_RamOperation(type, l) ==
    [type |-> type, level |-> l, condition |-> NullCondition, profileText |-> "", relation |-> NoRelation,
     identifier |-> 0, queryPattern |-> <<>>, pattern |-> <<>>, keys |-> {}, ref |-> <<>>,
     fun |-> "-", value |-> Allocated(0, NullValue), filterCondition |-> NullCondition,
     filter |-> NoRelation, values |-> <<>>]

\* level(nested->getLevel() - 1)
RamNestedOperation_RamNestedOperation(type, nested) ==
    <<RamOperation_RamOperation(type, minusOne(Head(nested).level))>> \o nested

RamSearch_RamSearch(type, nested, profileText) ==
    LET base == RamNestedOperation_RamNestedOperation(type, nested)
    IN <<[Head(base) EXCEPT !.profileText = profileText]>> \o Tail(base)

RamRelationSearch_RamRelationSearch(type, r, ident, nested, profileText) ==
    LET base == RamSearch_RamSearch(type, nested, profileText)
    IN <<[Head(base) EXCEPT !.relation = r, !.identifier = ident]>> \o Tail(base)

RamScan_RamScan(r, ident, nested, profileText) ==
    RamRelationSearch_RamRelationSearch("Scan", r, ident, nested, profileText)

\* the process has died in a member function
Trap == -1
Crashed == <<[RamOperation_RamOperation("crashed", size_t(0)) EXCEPT !.profileText = "trap"]>>
isCrashed(chain) == chain # <<>> /\ Head(chain).type = "crashed"

\* queryPattern(r->getArity()) is evaluated after r was moved into the base
\* class: r is null there. What the read yields is not defined; it traps or
\* yields some size.
movedFromArity == {Trap} \cup (0 .. (Arity + 1))

\* size is what r->getArity() yielded
RamIndexSearch_RamIndexSearch(type, r, ident, nested, profileText, size) ==
    LET base == RamRelationSearch_RamRelationSearch(type, r, ident, nested, profileText)
    IN IF size = Trap \/ isCrashed(nested) THEN Crashed
       ELSE <<[Head(base) EXCEPT !.queryPattern = [i \in 1 .. size |-> NullValue]]>>
            \o Tail(base)

RamIndexScan_RamIndexScan(r, ident, nested, profileText, size) ==
    RamIndexSearch_RamIndexSearch("IndexScan", r, ident, nested, profileText, size)

RamExistenceCheck_RamExistenceCheck(r, ident, nested, profileText, size) ==
    RamIndexSearch_RamIndexSearch("ExistenceCheck", r, ident, nested, profileText, size)

RamLookup_RamLookup(nested, ref_level, ref_pos, arity, ident) ==
    LET base == RamSearch_RamSearch("Lookup", nested, "")
    IN <<[Head(base) EXCEPT !.ref = <<ref_level, ref_pos, arity>>, !.identifier = ident]>>
       \o Tail(base)

\* pattern(relation->getArity()) reads the member, which is initialised
RamAggregate_RamAggregate(nested, fun, value, rel, ident) ==
    LET base == RamSearch_RamSearch("Aggregate", nested, "")
    IN <<[Head(base) EXCEPT !.fun = fun, !.value = value, !.relation = rel,
                            !.pattern = [i \in 1 .. ArityOf(rel) |-> NullValue],
                            !.identifier = ident]>> \o Tail(base)

RamFilter_RamFilter(cond, nested) ==
    LET base == RamNestedOperation_RamNestedOperation("Filter", nested)
    IN <<[Head(base) EXCEPT !.filterCondition = cond]>> \o Tail(base)

RamProject_RamProject(rel, level) ==
    <<[RamOperation_RamOperation("Project", level) EXCEPT !.relation = rel]>>
RamProject_addArg(chain, v) == <<[Head(chain) EXCEPT !.values = Append(@, v)]>>
RamReturn_RamReturn(level) == <<RamOperation_RamOperation("Return", level)>>
RamReturn_addValue(chain, val) == <<[Head(chain) EXCEPT !.values = Append(@, val)]>>

\* addCondition (declared in the header, defined in RamOperation.cpp): an
\* equality on attribute i of the operation's own tuple fills slot i of the
\* pattern and marks column i in keys; any other condition is conjoined to the
\* operation's condition.  RamAggregate overrides it; the header declares no
\* member that fills a slot of RamIndexSearch::queryPattern, so fillSlot
\* stands for whatever code defines a slot of an index search
RamOperation_addCondition(chain, c) ==
    <<[Head(chain) EXCEPT !.condition = IF @ = NullCondition THEN c ELSE RamConjunction(@, c)]>>
    \o Tail(chain)

RamIndexSearch_fillSlot(chain, i, v) ==
    <<[Head(chain) EXCEPT !.queryPattern[i + 1] = v, !.keys = @ \cup {i}]>> \o Tail(chain)

RamAggregate_addCondition(chain, i, v) ==
    <<[Head(chain) EXCEPT !.pattern[i + 1] = v, !.keys = @ \cup {i}]>> \o Tail(chain)

\* ---- clone ---------------------------------------------------------------
\* what the build does where clone() is not defined: size is what the moved
\* from r->getArity() yields in the constructor of the copy, deref is what
\* condition->clone() yields on a null condition (a trap or some condition)
TrapCondition == [c |-> "trap"]
NullConditionClone == {TrapCondition, NullCondition} \cup Conds
Builds == [size : movedFromArity, deref : NullConditionClone]

definedSlots(slots) == SelectSeq(slots, LAMBDA x : x # NullValue)
cloneEach(slots) == [i \in DOMAIN slots |-> clone(slots[i])]

\* a copy of an owned node lives at an address of its own
AddressStep == 2
cloneAllocated(v) == Allocated(v.at + AddressStep, clone(v.node))

\* in each clone, nestedClone is the value of getOperation().clone()
RamScan_clone(op, nestedClone) ==
    RamScan_RamScan(clone(op.relation), op.identifier, nestedClone, op.profileText)

RamIndexScan_clone(op, nestedClone, ub) ==
    LET res == RamIndexScan_RamIndexScan(clone(op.relation), op.identifier, nestedClone,
                                         op.profileText, ub.size)
    IN IF isCrashed(res) \/ (op.condition = NullCondition /\ ub.deref = TrapCondition) THEN Crashed
       ELSE <<[Head(res) EXCEPT
                 !.condition = IF op.condition = NullCondition THEN ub.deref
                               ELSE clone(op.condition),
                 !.keys = op.keys,
                 !.queryPattern = @ \o cloneEach(definedSlots(op.queryPattern))]>> \o Tail(res)

RamExistenceCheck_clone(op, nestedClone, ub) ==
    RamExistenceCheck_RamExistenceCheck(clone(op.relation), op.identifier, nestedClone,
                                        op.profileText, ub.size)

RamLookup_clone(op, nestedClone) ==
    RamLookup_RamLookup(nestedClone, op.ref[1], op.ref[2], op.ref[3], op.identifier)

RamAggregate_clone(op, nestedClone) ==
    LET res == RamAggregate_RamAggregate(nestedClone, op.fun, cloneAllocated(op.value),
                                         clone(op.relation), op.identifier)
    IN <<[Head(res) EXCEPT !.keys = op.keys,
                           !.pattern = @ \o cloneEach(definedSlots(op.pattern))]>> \o Tail(res)

RamFilter_clone(op, nestedClone) ==
    RamFilter_RamFilter(clone(op.filterCondition), nestedClone)

RamProject_clone(op) ==
    LET res == RamProject_RamProject(clone(op.relation), op.level)
    IN <<[Head(res) EXCEPT !.filter = op.filter, !.values = cloneEach(op.values)]>>

RamReturn_clone(op) ==
    <<[Head(RamReturn_RamReturn(op.level)) EXCEPT !.values = cloneEach(op.values)]>>

\* the virtual clone() of an operation
RECURSIVE RamOperation_clone(_, _)
RamOperation_clone(chain, ub) ==
    LET op == Head(chain)
        nestedClone == IF Len(chain) > 1 THEN RamOperation_clone(Tail(chain), ub) ELSE <<>>
    IN IF isCrashed(nestedClone) THEN Crashed
       ELSE CASE op.type = "Scan" -> RamScan_clone(op, nestedClone)
              [] op.type = "IndexScan" -> RamIndexScan_clone(op, nestedClone, ub)
              [] op.type = "ExistenceCheck" -> RamExistenceCheck_clone(op, nestedClone, ub)
              [] op.type = "Lookup" -> RamLookup_clone(op, nestedClone)
              [] op.type = "Aggregate" -> RamAggregate_clone(op, nestedClone)
              [] op.type = "Filter" -> RamFilter_clone(op, nestedClone)
              [] op.type = "Project" -> RamProject_clone(op)
              [] op.type = "Return" -> RamReturn_clone(op)

\* ---- equality -------------------------------------------------------------
\* equal_targets (Util.h): same length and equal element by element
equal_targets(a, b) == Len(a) = Len(b) /\ \A i \in DOMAIN a : a[i] = b[i]

\* operator== of RamNode on two distinct objects: same class and equal()
RECURSIVE RamNode_equals(_, _)

RamOperation_equal(a, b) ==
    IF Head(a).condition # NullCondition /\ Head(b).condition # NullCondition
    THEN Head(a).condition = Head(b).condition
    ELSE Head(a).condition = NullCondition /\ Head(b).condition = NullCondition

RamNestedOperation_equal(a, b) ==
    RamOperation_equal(a, b) /\ RamNode_equals(Tail(a), Tail(b))

RamSearch_equal(a, b) ==
    RamNestedOperation_equal(a, b) /\ Head(a).profileText = Head(b).profileText

RamRelationSearch_equal(a, b) ==
    /\ RamSearch_equal(a, b)
    /\ Head(a).relation = Head(b).relation
    /\ Head(a).identifier = Head(b).identifier

RamIndexSearch_equal(a, b) ==
    /\ RamRelationSearch_equal(a, b)
    /\ equal_targets(Head(a).queryPattern, Head(b).queryPattern)
    /\ Head(a).keys = Head(b).keys

RamLookup_equal(a, b) ==
    /\ RamSearch_equal(a, b)
    /\ Head(a).ref[2] = Head(b).ref[2]
    /\ Head(a).ref[1] = Head(b).ref[1]
    /\ Head(a).ref[3] = Head(b).ref[3]

\* getTargetExpression() == other.getTargetExpression() compares two
\* const RamValue*: the addresses
RamAggregate_equal(a, b) ==
    /\ RamSearch_equal(a, b)
    /\ Head(a).relation = Head(b).relation
    /\ equal_targets(Head(a).pattern, Head(b).pattern)
    /\ Head(a).keys = Head(b).keys
    /\ Head(a).fun = Head(b).fun
    /\ Head(a).value.at = Head(b).value.at

RamFilter_equal(a, b) ==
    Head(a).filterCondition = Head(b).filterCondition /\ RamNestedOperation_equal(a, b)

RamProject_equal(a, b) ==
    LET isFilterEqual == Head(a).filter = Head(b).filter
    IN /\ RamOperation_equal(a, b)
       /\ Head(a).relation = Head(b).relation
       /\ equal_targets(Head(a).values, Head(b).values)
       /\ isFilterEqual

RamReturn_equal(a, b) ==
    RamOperation_equal(a, b) /\ equal_targets(Head(a).values, Head(b).values)

RamNode_equals(a, b) ==
    /\ Head(a).type = Head(b).type
    /\ CASE Head(a).type = "Scan" -> RamRelationSearch_equal(a, b)
         [] Head(a).type \in {"IndexScan", "ExistenceCheck"} -> RamIndexSearch_equal(a, b)
         [] Head(a).type = "Lookup" -> RamLookup_equal(a, b)
         [] Head(a).type = "Aggregate" -> RamAggregate_equal(a, b)
         [] Head(a).type = "Filter" -> RamFilter_equal(a, b)
         [] Head(a).type = "Project" -> RamProject_equal(a, b)
         [] Head(a).type = "Return" -> RamReturn_equal(a, b)

\* ---- children --------------------------------------------------------------
\* a child is named by the member that owns it and its index in that member
Child(field, index) == [field |-> field, index |-> index]

\* the non-null elements of a vector member, in order
slotChildren(field, slots) ==
    LET idx == SelectSeq([i \in 1 .. Len(slots) |-> i], LAMBDA i : slots[i] # NullValue)
    IN [k \in DOMAIN idx |-> Child(field, idx[k])]
allChildren(field, slots) == [i \in 1 .. Len(slots) |-> Child(field, i)]

RamOperation_getChildNodes(op) ==
    IF op.condition = NullCondition THEN <<>> ELSE <<Child("condition", 0)>>

RamNestedOperation_getChildNodes(op) == <<Child("nestedOperation", 0)>>

RamIndexSearch_getChildNodes(op) ==
    RamNestedOperation_getChildNodes(op) \o slotChildren("queryPattern", op.queryPattern)

RamFilter_getChildNodes(op) == <<Child("filterCondition", 0), Child("nestedOperation", 0)>>

RamProject_getChildNodes(op) ==
    RamOperation_getChildNodes(op) \o <<Child("relation", 0)>> \o allChildren("values", op.values)

\* the virtual getChildNodes(): the override nearest to the class
getChildNodes(op) ==
    CASE op.type \in {"Scan", "Lookup", "Aggregate"} -> RamNestedOperation_getChildNodes(op)
      [] op.type \in {"IndexScan", "ExistenceCheck"} -> RamIndexSearch_getChildNodes(op)
      [] op.type = "Filter" -> RamFilter_getChildNodes(op)
      [] op.type = "Project" -> RamProject_getChildNodes(op)
      [] op.type = "Return" -> RamOperation_getChildNodes(op)

\* ---- apply: the children handed to the mapper, in order --------------------
RamOperation_apply(op) ==
    IF op.condition = NullCondition THEN <<>> ELSE <<Child("condition", 0)>>

RamNestedOperation_apply(op) == <<Child("nestedOperation", 0)>>

RamRelationSearch_apply(op) == RamNestedOperation_apply(op) \o <<Child("relation", 0)>>

RamIndexSearch_apply(op) ==
    RamRelationSearch_apply(op) \o slotChildren("queryPattern", op.queryPattern)

RamLookup_apply(op) == RamNestedOperation_apply(op)

RamAggregate_apply(op) ==
    RamNestedOperation_apply(op) \o <<Child("relation", 0), Child("value", 0)>>
        \o slotChildren("pattern", op.pattern)

RamFilter_apply(op) == RamNestedOperation_apply(op) \o <<Child("filterCondition", 0)>>

RamProject_apply(op) ==
    RamOperation_apply(op) \o <<Child("relation", 0)>> \o allChildren("values", op.values)

RamReturn_apply(op) == RamOperation_apply(op) \o allChildren("values", op.values)

\* the virtual apply()
apply(op) ==
    CASE op.type = "Scan" -> RamRelationSearch_apply(op)
      [] op.type \in {"IndexScan", "ExistenceCheck"} -> RamIndexSearch_apply(op)
      [] op.type = "Lookup" -> RamLookup_apply(op)
      [] op.type = "Aggregate" -> RamAggregate_apply(op)
      [] op.type = "Filter" -> RamFilter_apply(op)
      [] op.type = "Project" -> RamProject_apply(op)
      [] op.type = "Return" -> RamReturn_apply(op)

\* ---- node mappers and the depth-first visitor ------------------------------
\* a mapper hands back the node it is given, a simpler node in its place, or
\* (for an operation) a Filter it has put above the operation
Mappers == {"identity", "simplify", "filter"}
mapValue(map, x) == IF map = "simplify" /\ x.e = "const" THEN RamSignedConstant(0) ELSE x
mapCondition(map, c) == IF map = "simplify" THEN RamTrue ELSE c
mapOperation(map, nested) ==
    IF map = "filter" THEN RamFilter_RamFilter(RamTrue, nested) ELSE nested

\* the operation after apply(map): every child handed to the mapper is
\* replaced by what the mapper returns for it
applied(chain, map) ==
    LET op == Head(chain)
        offered == Range(apply(op))
        mapSlots(field, slots) ==
            [i \in DOMAIN slots |->
                IF Child(field, i) \in offered THEN mapValue(map, slots[i]) ELSE slots[i]]
    IN <<[op EXCEPT
            !.condition = IF Child("condition", 0) \in offered THEN mapCondition(map, @) ELSE @,
            !.filterCondition =
                IF Child("filterCondition", 0) \in offered THEN mapCondition(map, @) ELSE @,
            !.value = IF Child("value", 0) \in offered
                      THEN Allocated(@.at, mapValue(map, @.node)) ELSE @,
            !.queryPattern = mapSlots("queryPattern", @),
            !.pattern = mapSlots("pattern", @),
            !.values = mapSlots("values", @)]>>
       \o (IF Child("nestedOperation", 0) \in offered
           THEN mapOperation(map, Tail(chain)) ELSE Tail(chain))

RECURSIVE Flatten(_)
Flatten(ss) == IF ss = <<>> THEN <<>> ELSE Head(ss) \o Flatten(Tail(ss))

\* visitDepthFirst (RamVisitor.h): the node, then each of its getChildNodes()
\* with all below it; a visit names the depth of the owner and the child
RECURSIVE visitDepthFirst(_, _)
visitDepthFirst(chain, depth) ==
    LET kids == getChildNodes(Head(chain))
        below(k) == IF k.field = "nestedOperation"
                    THEN visitDepthFirst(Tail(chain), depth + 1)
                    ELSE <<[depth |-> depth, child |-> k]>>
    IN <<[depth |-> depth, child |-> Child("this", 0)]>>
       \o Flatten([i \in DOMAIN kids |-> below(kids[i])])

\* ---- the operations the translator can build --------------------------------
MaxClones == 2      \* successive clone() calls
MaxLevel == 2       \* level the leaf of an operation is built at
MaxNesting == 3     \* operations of a chain after the mapper put Filters in

\* the pattern slots 0..n-1 with the listed ones filled
Fills(n) == SUBSET (0 .. (n - 1))

RECURSIVE fillQueryPattern(_, _)
fillQueryPattern(chain, cols) ==
    IF cols = {} THEN chain
    ELSE LET i == CHOOSE c \in cols : TRUE
         IN fillQueryPattern(RamIndexSearch_fillSlot(chain, i, RamSignedConstant(1)),
                             cols \ {i})

RECURSIVE fillPattern(_, _)
fillPattern(chain, cols) ==
    IF cols = {} THEN chain
    ELSE LET i == CHOOSE c \in cols : TRUE
         IN fillPattern(RamAggregate_addCondition(chain, i, RamSignedConstant(1)), cols \ {i})

Min(a, b) == IF a < b THEN a ELSE b

ProjectLeaf(level) == RamProject_addArg(RamProject_RamProject("R", level), RamTupleElement(0, 0))
ReturnLeaf(level) == RamReturn_addValue(RamReturn_RamReturn(level), RamSignedConstant(1))
OwnCondition == RamConstraint("NE", RamTupleElement(0, 0), RamSignedConstant(0))

\* with and without a condition of its own
withOrWithoutCondition(chain) == {chain, RamOperation_addCondition(chain, OwnCondition)}

IndexSearches(nested) ==
    UNION {
        {fillQueryPattern(RamIndexScan_RamIndexScan("R", 0, nested, "p", size), cols)
            : cols \in Fills(Min(size, ArityOf("R")))}
        \cup {fillQueryPattern(RamExistenceCheck_RamExistenceCheck("S", 0, nested, "", size), cols)
            : cols \in Fills(Min(size, ArityOf("S")))}
        : size \in movedFromArity \ {Trap} }

Aggregates(nested) ==
    {fillPattern(RamAggregate_RamAggregate(nested, "MAX",
                     Allocated(1, RamTupleElement(0, 0)), "R", 0), cols)
        : cols \in Fills(ArityOf("R"))}

OperationsOver(nested) ==
    UNION {withOrWithoutCondition(x) :
        x \in IndexSearches(nested) \cup Aggregates(nested)
              \cup {RamScan_RamScan("R", 0, nested, "p"), RamLookup_RamLookup(nested, 0, 0, 2, 1),
                    RamFilter_RamFilter(RamTrue, nested)} }

ConstructedAt(level) ==
    OperationsOver(ProjectLeaf(level))
    \cup withOrWithoutCondition(ProjectLeaf(level))
    \cup withOrWithoutCondition(ReturnLeaf(level))
    \cup {RamFilter_RamFilter(RamTrue, x) :
            x \in withOrWithoutCondition(RamScan_RamScan("R", 1, ReturnLeaf(level), ""))
                  \cup Aggregates(ReturnLeaf(level))}
    \cup {RamIndexScan_RamIndexScan("R", 0, ProjectLeaf(level), "p", Trap)}

\* the leaf is built at level 0 .. MaxLevel
LeafLevels == {size_t(n) : n \in 0 .. MaxLevel}
Constructed == UNION {ConstructedAt(level) : level \in LeafLevels}

\* a second object: the same operation built again, or built with another
\* tuple identifier, or with another condition
RECURSIVE builtAgain(_)
builtAgain(chain) ==
    IF chain = <<>> THEN <<>>
    ELSE <<[Head(chain) EXCEPT
              !.value = IF @.node = NullValue THEN @ ELSE Allocated(@.at + 1, @.node)]>>
         \o builtAgain(Tail(chain))

Operands(chain) ==
    IF isCrashed(chain) THEN {NoOperation}
    ELSE LET again == builtAgain(chain)
         IN {again,
             IF Head(again).type \in {"Scan", "IndexScan", "ExistenceCheck", "Lookup", "Aggregate"}
             THEN <<[Head(again) EXCEPT !.identifier = @ + 1]>> \o Tail(again)
             ELSE again,
             <<[Head(again) EXCEPT !.condition =
                   IF @ = NullCondition THEN OwnCondition ELSE NullCondition]>> \o Tail(again)}

\* ---- the member functions called on an operation ----------------------------
tvars == <<prog, pc, q, pos, changed, rets, snap, memo, last, visits>>

InitOperation ==
    /\ prog = <<>>
    /\ pc = "idle"
    /\ q = 1
    /\ pos = 1
    /\ changed = FALSE
    /\ rets = <<>>
    /\ snap = <<prog>>
    /\ memo = {}
    /\ last = NoLast
    /\ visits = <<>>
    /\ this \in Constructed
    /\ other \in Operands(this)
    /\ result = NoResult

\* the process is alive and holds the operation
Alive == this # NoOperation /\ ~isCrashed(this)

\* this->clone(); the copy is the operation the next calls are made on
Clone ==
    /\ Alive
    /\ result.clones < MaxClones
    /\ \E ub \in Builds : this' = RamOperation_clone(this, ub)
    /\ other' = this
    /\ result' = [call |-> "clone", value |-> <<>>, clones |-> result.clones + 1]
    /\ UNCHANGED tvars

\* *this == *other
Equal ==
    /\ Alive
    /\ result' = [call |-> "equal", value |-> <<RamNode_equals(this, other)>>,
                  clones |-> result.clones]
    /\ UNCHANGED <<this, other>>
    /\ UNCHANGED tvars

\* this->getChildNodes()
GetChildNodes ==
    /\ Alive
    /\ result' = [call |-> "getChildNodes", value |-> getChildNodes(Head(this)),
                  clones |-> result.clones]
    /\ UNCHANGED <<this, other>>
    /\ UNCHANGED tvars

\* this->apply(map)
Apply ==
    /\ Alive
    /\ \E map \in Mappers :
          /\ map = "filter" => Len(this) < MaxNesting
          /\ this' = applied(this, map)
    /\ result' = [call |-> "apply", value |-> apply(Head(this)), clones |-> result.clones]
    /\ UNCHANGED other
    /\ UNCHANGED tvars

\* visitDepthFirst(*this, ...)
VisitDepthFirst ==
    /\ Alive
    /\ result' = [call |-> "visitDepthFirst", value |-> visitDepthFirst(this, 0),
                  clones |-> result.clones]
    /\ UNCHANGED <<this, other>>
    /\ UNCHANGED tvars

NextOperation ==
    \/ Clone
    \/ Equal
    \/ GetChildNodes
    \/ Apply
    \/ VisitDepthFirst

SpecOperation == InitOperation /\ [][NextOperation]_vars

\* ---- properties --------------------------------------------------------
KnownIndexTypes == {"IndexScan", "ParallelIndexScan", "IndexChoice", "IndexAggregate"}

AllUndefined(op) ==
    \A i \in DOMAIN op.first : isRamUndefValue(op.first[i]) /\ isRamUndefValue(op.second[i])

Returned == pc = "idle" /\ rets # <<>>

\* the operation the latest rewriter invocation was on, and what stands there now
LastOld == last.before[last.pos]
LastNew == last.after[last.pos]
LastRewrote == last.after # last.before
LastDischarged == Range(last.ord)

\* C1: after a call of transformIndexToFilter has returned, no operation of
\* any query, at any depth, is an IndexScan, ParallelIndexScan, IndexChoice
\* or IndexAggregate whose pattern has both bounds undefined at every position
C1_NoEmptyIndexAfterCall ==
    Returned =>
        \A k \in DOMAIN prog : \A j \in DOMAIN prog[k] :
            ~(prog[k][j].type \in KnownIndexTypes /\ AllUndefined(prog[k][j]))

\* a call has returned on a program that had an index operation without
\* bounds below the root of a query and one that lost all its bounds in pass 1
C1_Witness ==
    /\ Returned
    /\ \E k \in DOMAIN snap[1] : \E j \in DOMAIN snap[1][k] :
        j > 1 /\ snap[1][k][j].type \in KnownIndexTypes /\ AllUndefined(snap[1][k][j])
    /\ \E k \in DOMAIN snap[1] : \E j \in DOMAIN snap[1][k] :
        /\ snap[1][k][j].type = "IndexScan" /\ ~AllUndefined(snap[1][k][j])
        /\ \A i \in DOMAIN snap[2][k] : snap[2][k][i].type # "IndexScan"

\* the condition pass 1 put into the tree for the latest operation: the new
\* Filter's condition, or the right operand of the aggregate's conjunction
InstalledCondition ==
    IF ~LastRewrote THEN NullCondition
    ELSE IF LastNew.type = "IndexAggregate" THEN LastNew.cond.rhs
    ELSE last.after[last.pos + 1].cond

\* C2: for every index operation pass 1 has processed, a tuple of its relation
\* lies in the narrowed pattern and satisfies the synthesized condition
\* exactly if it lies in the original pattern
C2_DischargeSound ==
    (last.pass = "discharge" /\ pc # "fatal" /\ isIndexOperation(LastOld)) =>
        \A t \in Tuples(LastOld.rel) :
            (inPattern(LastNew.first, LastNew.second, t)
                /\ evalCondition(InstalledCondition, LastOld.id, t))
            <=> inPattern(LastOld.first, LastOld.second, t)

\* pass 1 has discharged a position with both bounds and kept a bounded one
C2_Witness ==
    /\ last.pass = "discharge" /\ LastRewrote
    /\ \E i \in LastDischarged :
        ~isRamUndefValue(LastOld.first[i]) /\ ~isRamUndefValue(LastOld.second[i])
    /\ \E i \in DOMAIN LastNew.first : ~isRamUndefValue(LastNew.first[i])

\* C3: calling transformIndexToFilter a second time leaves the tree the first
\* call produced unchanged, whatever fixed function of relation and search
\* signature the index analysis is
C3_Idempotent ==
    (pc = "idle" /\ Len(rets) >= 2) => snap[3] = snap[2]

\* C4: the value a call returns is true exactly if the tree after the call
\* differs from the tree before it
C4_ReturnsWhetherRewritten ==
    Returned => \A k \in DOMAIN rets : rets[k] <=> (snap[k + 1] # snap[k])

\* pass 1 synthesizes a condition for op if a discharged position has a bound
Synthesizes(op, D) ==
    \E i \in D \cap DOMAIN op.first :
        ~isRamUndefValue(op.first[i]) \/ ~isRamUndefValue(op.second[i])

\* new carries the pattern of old with the positions in D reset
Narrowed(old, new, D) ==
    /\ DOMAIN new.first = DOMAIN old.first
    /\ DOMAIN new.second = DOMAIN old.second
    /\ \A i \in DOMAIN old.first :
        IF i \in D
        THEN isRamUndefValue(new.first[i]) /\ isRamUndefValue(new.second[i])
        ELSE new.first[i] = old.first[i] /\ new.second[i] = old.second[i]

LastAtDischarge == last.pass = "discharge" /\ pc # "fatal"

\* C5: when pass 1 synthesizes a condition for an IndexScan or IndexChoice,
\* the node at that position keeps variant, relation, tuple identifier,
\* profile text and choice condition, carries the narrowed pattern, and its
\* nested operation is a new Filter with the synthesized condition around
\* the original nested subtree
C5_ScanChoiceGetFilter ==
    (LastAtDischarge /\ LastOld.type \in {"IndexScan", "IndexChoice"}
        /\ Synthesizes(LastOld, LastDischarged)) =>
        /\ Len(last.after) = Len(last.before) + 1
        /\ SubSeq(last.after, 1, last.pos - 1) = SubSeq(last.before, 1, last.pos - 1)
        /\ LastNew = [LastOld EXCEPT !.first = LastNew.first, !.second = LastNew.second]
        /\ Narrowed(LastOld, LastNew, LastDischarged)
        /\ last.after[last.pos + 1].type = "Filter"
        /\ last.after[last.pos + 1].cond = last.condition
        /\ last.condition # NullCondition
        /\ SubSeq(last.after, last.pos + 2, Len(last.after))
             = SubSeq(last.before, last.pos + 1, Len(last.before))

\* pass 1 has rewritten an IndexChoice with a profile text and a condition
C5_Witness ==
    /\ LastAtDischarge /\ LastRewrote
    /\ LastOld.type = "IndexChoice" /\ LastOld.profile = "p" /\ LastOld.cond # RamTrue
    /\ \E i \in DOMAIN LastNew.first : ~isRamUndefValue(LastNew.first[i])

\* C6: when pass 1 synthesizes a condition for an IndexAggregate no Filter is
\* inserted; the node keeps function, relation, target expression and tuple
\* identifier, carries the narrowed pattern, the nested subtree is the
\* original one, and the condition is (existing condition AND synthesized)
C6_AggregateStrengthened ==
    (LastAtDischarge /\ LastOld.type = "IndexAggregate"
        /\ Synthesizes(LastOld, LastDischarged)) =>
        /\ Len(last.after) = Len(last.before)
        /\ \A j \in DOMAIN last.before : j # last.pos => last.after[j] = last.before[j]
        /\ LastNew = [LastOld EXCEPT !.first = LastNew.first, !.second = LastNew.second,
                                     !.cond = RamConjunction(LastOld.cond, last.condition)]
        /\ Narrowed(LastOld, LastNew, LastDischarged)
        /\ last.condition # NullCondition

\* pass 1 has strengthened an aggregate that had a condition of its own
C6_Witness ==
    /\ LastAtDischarge /\ LastRewrote
    /\ LastOld.type = "IndexAggregate" /\ LastOld.cond # RamTrue
    /\ LastNew.cond.rhs.c = "and"

\* the positions of a set in increasing order
RECURSIVE Increasing(_)
Increasing(S) ==
    IF S = {} THEN <<>>
    ELSE LET m == CHOOSE x \in S : \A y \in S : x <= y
         IN <<m>> \o Increasing(S \ {m})

\* the constraints of the positions of seq: lower bound, then upper bound
RECURSIVE ConstraintsOf(_, _)
ConstraintsOf(op, seq) ==
    IF seq = <<>> THEN <<>>
    ELSE LET i == Head(seq)
         IN (IF isRamUndefValue(op.first[i]) THEN <<>>
             ELSE <<RamConstraint("GE", RamTupleElement(op.id, i), op.first[i])>>)
            \o (IF isRamUndefValue(op.second[i]) THEN <<>>
                ELSE <<RamConstraint("LE", RamTupleElement(op.id, i), op.second[i])>>)
            \o ConstraintsOf(op, Tail(seq))

\* the left-associative conjunction of a sequence of conditions
RECURSIVE LeftConjunction(_)
LeftConjunction(cs) ==
    IF cs = <<>> THEN NullCondition
    ELSE IF Len(cs) = 1 THEN cs[1]
    ELSE RamConjunction(LeftConjunction(SubSeq(cs, 1, Len(cs) - 1)), cs[Len(cs)])

\* C7 as stated: the synthesized condition is the left-associative
\* conjunction of the constraints of the attributes to discharge taken in
\* increasing position order, and the pattern is reset at those positions
C7_IncreasingOrder ==
    (LastAtDischarge /\ isIndexOperation(LastOld)) =>
        /\ last.condition = LeftConjunction(ConstraintsOf(LastOld, Increasing(LastDischarged)))
        /\ InstalledCondition = last.condition
        /\ Narrowed(LastOld, LastNew, LastDischarged)

\* C7 amended: the synthesized condition is the left-associative conjunction
\* of the constraints (lower bound, then upper bound, of the operation's own
\* tuple) of the attributes to discharge taken in the order the loop meets
\* them, and the pattern is reset at those positions and kept elsewhere
C7_IterationOrder ==
    (LastAtDischarge /\ isIndexOperation(LastOld)) =>
        /\ last.condition = LeftConjunction(ConstraintsOf(LastOld, last.ord))
        /\ InstalledCondition = last.condition
        /\ Narrowed(LastOld, LastNew, LastDischarged)

\* pass 1 has discharged two positions with both bounds, the higher one first
C7_Witness ==
    /\ LastAtDischarge /\ LastRewrote
    /\ Len(last.ord) >= 2 /\ last.ord[1] > last.ord[2]
    /\ \A k \in 1 .. 2 : /\ ~isRamUndefValue(LastOld.first[last.ord[k]])
                         /\ ~isRamUndefValue(LastOld.second[last.ord[k]])

\* C8: pass 1 leaves an operation that is not an index operation, and an
\* index operation for which no condition is synthesized, as it is (pattern
\* included), does not fail on it, and goes on into its nested operation
C8_KeptUnchanged ==
    (last.pass = "discharge"
        /\ (~isIndexOperation(LastOld) \/ ~Synthesizes(LastOld, LastDischarged))) =>
        /\ pc # "fatal"
        /\ last.after = last.before
        /\ pc = "discharge" =>
            /\ prog[last.q] = last.before
            /\ IF last.pos < Len(last.before)
               THEN q = last.q /\ pos = last.pos + 1
               ELSE q = last.q + 1 /\ pos = 1

\* pass 1 has met an index operation with a bound whose attributes to
\* discharge have none, and is about to visit its nested operation
C8_Witness ==
    /\ last.pass = "discharge" /\ pc = "discharge"
    /\ isIndexOperation(LastOld) /\ ~AllUndefined(LastOld)
    /\ last.ord # <<>> /\ ~Synthesizes(LastOld, LastDischarged)
    /\ q = last.q /\ pos = last.pos + 1

Sibling(type) ==
    CASE type = "IndexScan" -> "Scan"
      [] type = "ParallelIndexScan" -> "ParallelScan"
      [] type = "IndexChoice" -> "Choice"
      [] type = "IndexAggregate" -> "Aggregate"
      [] OTHER -> type

Downgraded(op) ==
    [op EXCEPT !.type = Sibling(op.type), !.first = NoPattern, !.second = NoPattern]

\* C9: pass 2 replaces a known index operation whose pattern has no bound by
\* its non-indexed sibling with all other fields and the nested subtree
\* unchanged; an IndexChoice without bounds before the call is a Choice with
\* the same condition after it
C9_DowngradeKeepsFields ==
    /\ (last.pass = "remove" /\ LastOld.type \in KnownIndexTypes /\ AllUndefined(LastOld)) =>
        /\ LastNew = Downgraded(LastOld)
        /\ LastNew.type # LastOld.type
        /\ Len(last.after) = Len(last.before)
        /\ \A j \in DOMAIN last.before : j # last.pos => last.after[j] = last.before[j]
    /\ Returned =>
        \A k \in DOMAIN snap[1] :
            (snap[1][k][1].type = "IndexChoice" /\ AllUndefined(snap[1][k][1])) =>
                snap[2][k][1] = Downgraded(snap[1][k][1])

\* a call has returned that began with an IndexChoice without bounds that
\* had a profile text and a condition
C9_Witness ==
    /\ Returned
    /\ snap[1][1][1].type = "IndexChoice" /\ AllUndefined(snap[1][1][1])
    /\ snap[1][1][1].profile = "p" /\ snap[1][1][1].cond # RamTrue
    /\ snap[2][1][1].type = "Choice"

UnknownIndex(op) == isIndexOperation(op) /\ op.type \notin KnownIndexTypes

isExpression(x) == x.e \in {"undef", "const", "tuple"}

\* C11: after a call of transformIndexToFilter has returned, every index
\* operation that remains has a lower-bound and an upper-bound list whose
\* length is the arity of its relation, and every slot holds an expression
\* or the undefined value
C11_ArityPreserved ==
    Returned =>
        \A k \in DOMAIN prog : \A j \in DOMAIN prog[k] :
            isIndexOperation(prog[k][j]) =>
                /\ DOMAIN prog[k][j].first = Positions(prog[k][j].rel)
                /\ DOMAIN prog[k][j].second = Positions(prog[k][j].rel)
                /\ \A i \in Positions(prog[k][j].rel) :
                    isExpression(prog[k][j].first[i]) /\ isExpression(prog[k][j].second[i])

\* a call has returned with an index operation over R that lost the bounds
\* of one position in pass 1 and kept the bounds of another
C11_Witness ==
    /\ Returned
    /\ \E k \in DOMAIN prog : \E j \in DOMAIN prog[k] :
        /\ isIndexOperation(prog[k][j]) /\ prog[k][j].rel = "R"
        /\ j \in DOMAIN snap[1][k] /\ snap[1][k][j].type = prog[k][j].type
        /\ snap[1][k][j].first # prog[k][j].first
        /\ ~AllUndefined(prog[k][j])

\* ---- the order of the rewriter invocations -------------------------------
VisitsOf(pass) == SelectSeq(visits, LAMBDA v : v.pass = pass)
NodeOf(v) == [q |-> v.q, pos |-> v.pos]
NodesOfQuery(k) == [j \in 1 .. Len(prog[k]) |-> [q |-> k, pos |-> j]]

\* the operations of the queries 1..k, query by query, outermost first
RECURSIVE NodesUpTo(_)
NodesUpTo(k) == IF k = 0 THEN <<>> ELSE NodesUpTo(k - 1) \o NodesOfQuery(k)

AllNodes == Range(NodesUpTo(Len(prog)))
HasIndexOperation(chain) == \E j \in DOMAIN chain : isIndexOperation(chain[j])

\* C12: within one call no discharge invocation follows a removal
\* invocation, and the first removal invocation happens when the discharge
\* rewriter has been invoked on every operation of every query; an IndexScan
\* at the root of a query whose bounded positions are all discharged ends the
\* call as a Scan with the same relation, identifier and profile whose nested
\* operation is the Filter with the synthesized condition around the
\* original nested subtree
C12_RemovalAfterDischarge ==
    /\ \A a, b \in DOMAIN visits :
        (visits[a].pass = "remove" /\ visits[b].pass = "discharge") => b < a
    /\ VisitsOf("remove") # <<>> =>
        {NodeOf(VisitsOf("discharge")[a]) : a \in DOMAIN VisitsOf("discharge")} = AllNodes
    /\ Returned =>
        \A k \in DOMAIN snap[1] : \A m \in memo :
            LET op == snap[1][k][1]
            IN (/\ op.type = "IndexScan"
                /\ m.rel = op.rel /\ m.sig = getSearchSignature(op)
                /\ m.sig # {} /\ m.sig \subseteq Range(m.ord)) =>
                /\ snap[2][k][1] = Downgraded(op)
                /\ snap[2][k][1].type = "Scan"
                /\ <<snap[2][k][2]>> = RamFilter(LeftConjunction(ConstraintsOf(op, m.ord)), <<>>)
                /\ Len(snap[2][k]) >= Len(snap[1][k]) + 1
                /\ ~HasIndexOperation(Tail(snap[1][k])) =>
                    SubSeq(snap[2][k], 3, Len(snap[2][k])) = Tail(snap[1][k])

\* a call on two queries has returned; the IndexScan at the root of the
\* second had both bounds at every position and all of them were discharged
C12_Witness ==
    /\ Returned /\ Len(snap[1]) = 2
    /\ snap[1][2][1].type = "IndexScan"
    /\ \A i \in DOMAIN snap[1][2][1].first :
        ~isRamUndefValue(snap[1][2][1].first[i]) /\ ~isRamUndefValue(snap[1][2][1].second[i])
    /\ snap[2][2][1].type = "Scan" /\ snap[2][2][2].type = "Filter"
    /\ snap[2][2][2].cond.c = "and"

\* the operations a sweep that stands at operation pp of query qq has passed
Before(qq, pp) == NodesUpTo(qq - 1) \o [j \in 1 .. (pp - 1) |-> [q |-> qq, pos |-> j]]
NodesOf(seq) == [a \in DOMAIN seq |-> NodeOf(seq[a])]

\* C13: in each pass the rewriter is invoked exactly once on every operation
\* of every query as the program stands after the rewrites, a parent before
\* its nested operation: the invocations of a running sweep are exactly the
\* operations before the current one, in order, so after a replacement the
\* next invocation is on the nested operation of the replacement and no
\* operation is met twice; a finished sweep has met every operation once
C13_OncePerOperation ==
    /\ pc = "discharge" =>
        NodesOf(VisitsOf("discharge")) = Before(q, pos) /\ VisitsOf("remove") = <<>>
    /\ pc = "remove" =>
        /\ NodesOf(VisitsOf("discharge")) = NodesUpTo(Len(prog))
        /\ NodesOf(VisitsOf("remove")) = Before(q, pos)
    /\ Returned =>
        /\ NodesOf(VisitsOf("discharge")) = NodesUpTo(Len(prog))
        /\ NodesOf(VisitsOf("remove")) = NodesUpTo(Len(prog))
    /\ pc = "fatal" => NodesOf(VisitsOf(last.pass)) = Before(q, pos + 1)

\* a call has returned in which pass 1 put a Filter under an index operation
\* and another under an index operation nested below the first Filter
C13_Witness ==
    /\ Returned
    /\ Len(snap[1][1]) = 3 /\ Len(snap[2][1]) = 5
    /\ isIndexOperation(snap[1][1][2])
    /\ snap[2][1][2].type = "Filter" /\ snap[2][1][4].type = "Filter"
    /\ Len(visits) = 10

RECURSIVE Unprocessed(_, _)
Unprocessed(k, j) ==
    IF k > Len(prog) THEN <<>>
    ELSE SubSeq(prog[k], j, Len(prog[k])) \o Unprocessed(k + 1, 1)

\* the same in the next state
RECURSIVE UnprocessedNext(_, _)
UnprocessedNext(k, j) ==
    IF k > Len(prog') THEN <<>>
    ELSE SubSeq(prog'[k], j, Len(prog'[k])) \o UnprocessedNext(k + 1, 1)

\* index operations count twice
RECURSIVE Weight(_)
Weight(ops) ==
    IF ops = <<>> THEN 0
    ELSE (IF isIndexOperation(Head(ops)) THEN 2 ELSE 1) + Weight(Tail(ops))

\* a step in which a rewriter is invoked and the sweep goes on
InvocationStep == visits' # visits /\ pc' = pc

Terminated == Returned \/ pc = "fatal"

\* C17 as stated: every call ends, and with every rewriter invocation the
\* number of operations still to be processed strictly decreases
C17_FewerOperationsEachStep ==
    /\ (pc = "discharge") ~> Terminated
    /\ [][InvocationStep => Len(UnprocessedNext(q', pos')) < Len(Unprocessed(q, pos))]_vars

\* C17 amended: every call ends (it returns or aborts in the fatal
\* failure); with every rewriter invocation the number of operations still
\* to be processed does not increase, and it strictly decreases when index
\* operations are counted twice, because a rewrite adds at most the one new
\* Filter below the node it replaces
C17_Terminates ==
    /\ (pc = "discharge") ~> Terminated
    /\ [][InvocationStep =>
            /\ Len(UnprocessedNext(q', pos')) <= Len(Unprocessed(q, pos))
            /\ Weight(UnprocessedNext(q', pos')) < Weight(Unprocessed(q, pos))]_vars

\* a call on two queries has returned after pass 1 put a Filter into each
C17_Witness ==
    /\ Returned /\ Len(prog) = 2
    /\ \A k \in 1 .. 2 : Len(snap[2][k]) = Len(snap[1][k]) + 1
    /\ Len(visits) = 2 * (Len(prog[1]) + Len(prog[2]))

\* C18: for every content of the relation, the operation that was nested in
\* an IndexChoice before pass 1 rewrote it runs after the rewrite (below the
\* new Filter, under the narrowed pattern) exactly if it ran before, that is
\* exactly if some tuple lies in the original pattern and satisfies the
\* choice condition
C18_ChoicePreserved ==
    (LastAtDischarge /\ LastOld.type = "IndexChoice" /\ LastRewrote) =>
        \A content \in Contents(LastOld.rel) :
            runsBelowFilter(LastNew, last.after[last.pos + 1], content)
                <=> choiceMatches(LastOld, content) # <<>>

\* ---- RamOperation.h: clone, equality, children ------------------------------
\* a node without the addresses of the nodes it owns
Structure(op) == [op EXCEPT !.value = op.value.node]

\* deep structural equality of two operations
sameStructure(a, b) ==
    /\ Len(a) = Len(b)
    /\ \A j \in DOMAIN a : Structure(a[j]) = Structure(b[j])

\* C14: clone() is defined on every operation and returns an operation that
\* is deep-structurally equal to the original: condition, pattern, keys,
\* relation references and nested operation included
C14_CloneIsEqual ==
    result.call = "clone" => ~isCrashed(this) /\ sameStructure(this, other)

\* C15: equal() on two operations of the same variant is true exactly if
\* identifiers, relation references and all owned subtrees are recursively
\* equal
C15_EqualIsStructural ==
    (result.call = "equal" /\ Head(this).type = Head(other).type) =>
        (result.value[1] <=> sameStructure(this, other))

\* the nodes an operation owns
Owned(chain) ==
    LET op == Head(chain)
    IN (IF Len(chain) > 1 THEN {Child("nestedOperation", 0)} ELSE {})
       \cup (IF op.condition # NullCondition THEN {Child("condition", 0)} ELSE {})
       \cup (IF op.filterCondition # NullCondition THEN {Child("filterCondition", 0)} ELSE {})
       \cup (IF op.relation # NoRelation THEN {Child("relation", 0)} ELSE {})
       \cup (IF op.value.node # NullValue THEN {Child("value", 0)} ELSE {})
       \cup Range(slotChildren("queryPattern", op.queryPattern))
       \cup Range(slotChildren("pattern", op.pattern))
       \cup Range(allChildren("values", op.values))

\* every operation of the chain and every node it owns except its nested
\* operation, with the depth of the owner
OwnedBelow(chain) ==
    UNION {{[depth |-> j - 1, child |-> Child("this", 0)]}
           \cup {[depth |-> j - 1, child |-> k] :
                    k \in Owned(SubSeq(chain, j, Len(chain))) \ {Child("nestedOperation", 0)}}
           : j \in DOMAIN chain}

\* C16: the depth-first traversal along getChildNodes reaches every node the
\* operation owns, at any depth, exactly once, and on every operation
\* getChildNodes reports the children that apply hands to the mapper
\* (apply replaces children, it does not add or remove any)
C16_ChildrenComplete ==
    /\ result.call = "visitDepthFirst" =>
        /\ Range(result.value) = OwnedBelow(this)
        /\ \A a, b \in DOMAIN result.value : a # b => result.value[a] # result.value[b]
    /\ result.call = "getChildNodes" => Range(result.value) = Range(apply(Head(this)))
    /\ result.call = "apply" => Range(result.value) = Range(getChildNodes(Head(this)))

patternOf(op) == IF op.type = "Aggregate" THEN op.pattern ELSE op.queryPattern
hasPattern(op) == op.type \in {"IndexScan", "ExistenceCheck", "Aggregate"}

\* C20: an IndexScan, ExistenceCheck or Aggregate is constructed, and after
\* any sequence of clone() and apply() its pattern has as many slots as its
\* relation has attributes; each slot of a clone holds the copy of what the
\* same slot of the original holds
C20_PatternKeepsArity ==
    /\ result.call # "none" => ~isCrashed(this)
    /\ (result.call # "none" /\ Alive) =>
        \A j \in DOMAIN this :
            hasPattern(this[j]) => Len(patternOf(this[j])) = ArityOf(this[j].relation)
    /\ result.call = "clone" =>
        \A j \in DOMAIN this \cap DOMAIN other :
            hasPattern(other[j]) => patternOf(this[j]) = patternOf(other[j])

\* ---- RamOperation.h: the level of a nested operation ------------------------
\* a is b - 1 as numbers: b is not 0 and a is the size_t before it
oneLess(a, b) == b # size_t(0) /\ a = minusOne(b)

\* every operation of the chain that has a nested child is one level below it
levelsNested(chain) ==
    \A j \in 1 .. (Len(chain) - 1) : oneLess(chain[j].level, chain[j + 1].level)

\* no level of the chain has wrapped: all are far below 2^48
NoWrap(chain) == \A j \in 1 .. Len(chain) : chain[j].level[Limbs] = 0

\* the two cases of the claim, each on its own: the operation as the
\* constructors left it, and an operation without any wrapped level after
\* apply()
LevelAtConstruction == (Alive /\ result.call = "none") => levelsNested(this)
LevelAfterApply == (Alive /\ result.call = "apply" /\ NoWrap(this)) => levelsNested(this)

\* C21: in every reachable state the level of every nested operation is the
\* level of its nested child minus one: at construction (no wrap below zero
\* as an unsigned 64-bit value when the child's level is 0) and after apply()
\* has replaced the nested child by the mapper's result
C21_LevelIsChildMinusOne == Alive => levelsNested(this)

====
